---------------------------- MODULE Spec2Model ----------------------------
(***************************************************************************)
(* backctl: backlight control through sysfs (src/src/main.rs).             *)
(*                                                                         *)
(* The model follows one invocation of main() step by step: argument       *)
(* matching and Update construction, udev enumeration, and for every       *)
(* enumerated device the three I/O steps of Update::apply (read            *)
(* brightness, read max_brightness, write brightness).  The fixed-width    *)
(* integers of the program (i32 / u32) are kept as Width-bit integers so   *)
(* that casts and overflow behave as in the program.                       *)
(***************************************************************************)
EXTENDS Integers, Sequences, FiniteSets

(***************************************************************************)
(* Bounds of the model.                                                    *)
(***************************************************************************)
\* number of bits of the program's i32 / u32 in the model
Width == 8
\* largest number of backlight devices udev enumerates
MaxDevices == 2
\* largest number of invocations of the program in a row (SpecSeq)
MaxRuns == 2
\* largest number of writes by other programs during one invocation (SpecExt)
MaxExternal == 1

RECURSIVE Pow2(_)
Pow2(n) == IF n = 0 THEN 1 ELSE 2 * Pow2(n - 1)

I32Max == Pow2(Width - 1) - 1
I32Min == 0 - Pow2(Width - 1)
U32Max == Pow2(Width) - 1

(***************************************************************************)
(* Text: a string is a sequence of one-character strings.                  *)
(***************************************************************************)
Digits == <<"0", "1", "2", "3", "4", "5", "6", "7", "8", "9">>

IsDigit(c) == \E i \in 1..10 : Digits[i] = c

DigitVal(c) == (CHOOSE i \in 1..10 : Digits[i] = c) - 1

IsWhitespace(c) == c \in {" ", "\n", "\t"}

\* str::trim
RECURSIVE TrimStart(_)
TrimStart(s) ==
    IF s # <<>> /\ IsWhitespace(Head(s)) THEN TrimStart(Tail(s)) ELSE s

RECURSIVE TrimEnd(_)
TrimEnd(s) ==
    IF s # <<>> /\ IsWhitespace(s[Len(s)])
    THEN TrimEnd(SubSeq(s, 1, Len(s) - 1))
    ELSE s

Trim(s) == TrimEnd(TrimStart(s))

\* the digits of s as a number, -1 when s has a character that is no digit
RECURSIVE DigitsValue(_, _)
DigitsValue(s, acc) ==
    IF s = <<>> THEN acc
    ELSE IF ~IsDigit(Head(s)) THEN -1
    ELSE DigitsValue(Tail(s), acc * 10 + DigitVal(Head(s)))

\* core::num from_str_radix(s, 10): an optional sign ("-" only for a signed
\* type), then at least one digit, and the value must fit the type
FromStr(s, signed, lo, hi) ==
    LET neg  == s # <<>> /\ Head(s) = "-" /\ signed
        sign == s # <<>> /\ (Head(s) = "+" \/ neg)
        body == IF sign THEN Tail(s) ELSE s
        n    == IF body = <<>> THEN -1 ELSE DigitsValue(body, 0)
        v    == IF neg THEN 0 - n ELSE n
    IN  IF n < 0 \/ v < lo \/ v > hi
        THEN [ok |-> FALSE, val |-> 0]
        ELSE [ok |-> TRUE, val |-> v]

\* str::parse::<i32>
ParseI32(s) == FromStr(s, TRUE, I32Min, I32Max)

\* str::parse::<u32>
ParseU32(s) == FromStr(s, FALSE, 0, U32Max)

\* u32::to_string
RECURSIVE ToString(_)
ToString(n) ==
    IF n < 10 THEN <<Digits[n + 1]>>
    ELSE ToString(n \div 10) \o <<Digits[(n % 10) + 1]>>

(***************************************************************************)
(* Fixed-width arithmetic.                                                 *)
(***************************************************************************)
\* two's complement wrap of a mathematical integer into i32
WrapI32(x) == ((x - I32Min) % Pow2(Width)) + I32Min

\* `u as i32`
AsI32(u) == WrapI32(u)

\* `i as u32`
AsU32(i) == i % Pow2(Width)

Overflows(x) == x < I32Min \/ x > I32Max

(***************************************************************************)
(* The sysfs attribute files of a backlight device.  The kernel shows an   *)
(* attribute as its decimal digits and a newline, and a write of decimal   *)
(* digits stores the number written.                                       *)
(***************************************************************************)
SysfsShow(n) == ToString(n) \o <<"\n">>

SysfsStore(text, old) ==
    LET r == ParseU32(Trim(text)) IN IF r.ok THEN r.val ELSE old

\* Backlight::read_value: open and read may fail (fail), then trim and parse
ReadValue(buf, fail) ==
    IF fail THEN [ok |-> FALSE, val |-> 0] ELSE ParseU32(Trim(buf))

(***************************************************************************)
(* Update                                                                  *)
(***************************************************************************)
None == [some |-> FALSE, relative |-> FALSE, value |-> 0]

Some(relative, value) == [some |-> TRUE, relative |-> relative, value |-> value]

\* a variant of Update::new in which malformed text counts as 0
UpdateNewOrZero(relative, valstr) ==
    LET r == ParseI32(Trim(valstr))
    IN  [ok |-> TRUE, update |-> Some(relative, r.val)]

\* Update::new
UpdateNew(relative, valstr) ==
    LET r == ParseI32(Trim(valstr))
    IN  [ok |-> r.ok, update |-> IF r.ok THEN Some(relative, r.val) ELSE None]

\* Update::set
UpdateSet(valstr) == UpdateNew(FALSE, valstr)

\* Update::inc
UpdateInc(valstr) == UpdateNew(TRUE, valstr)

\* Update::dec: `res.value *= -1` overflows for i32::MIN; with overflow
\* checks the program panics, without them the product wraps
UpdateDec(valstr, checks) ==
    LET res == UpdateNew(TRUE, valstr)
        neg == 0 - res.update.value
    IN  IF ~res.ok THEN res
        ELSE IF Overflows(neg) /\ checks THEN [ok |-> FALSE, update |-> None]
        ELSE [ok |-> TRUE, update |-> Some(TRUE, WrapI32(neg))]

\* a variant of main's matching in which no subcommand means `set 0`
MatchUpdateDefault(cmd, valstr, checks) ==
    IF cmd = "inc" THEN UpdateInc(valstr)
    ELSE IF cmd = "dec" THEN UpdateDec(valstr, checks)
    ELSE IF cmd = "set" THEN UpdateSet(valstr)
    ELSE [ok |-> TRUE, update |-> Some(FALSE, 0)]

\* main: the subcommand decides the Update; none of them gives no Update
MatchUpdate(cmd, valstr, checks) ==
    IF cmd = "inc" THEN UpdateInc(valstr)
    ELSE IF cmd = "dec" THEN UpdateDec(valstr, checks)
    ELSE IF cmd = "set" THEN UpdateSet(valstr)
    ELSE [ok |-> TRUE, update |-> None]

\* a variant of apply that adds the current brightness for every request
IsRelativeAlways(u) == TRUE

\* Update::apply: which requests read the current brightness
IsRelative(u) == u.relative

\* variants of the clamping with one of the two tests missing
ClampLowerOnly(value, max) == IF value < 0 THEN 0 ELSE value

ClampUpperOnly(value, max) == IF value > max THEN max ELSE value

\* Update::apply: the two clamping tests, in the order of the code
Clamp(value, max) ==
    LET v1 == IF value > max THEN max ELSE value
    IN  IF v1 < 0 THEN 0 ELSE v1

\* a variant of main that carries on after an error
UnwrapContinue(ok, next) == next

\* Result::unwrap in main: an error ends the invocation
Unwrap(ok, next) == IF ok THEN next ELSE "aborted"

\* a variant of the iterator that hands out the first device every time
SyspathFirst(o, p) == o[1]

\* the device the iterator hands out at a position of the enumeration
Syspath(o, p) == o[p]

(***************************************************************************)
(* Inputs                                                                  *)
(***************************************************************************)
Subcommands == {"inc", "dec", "set", "none"}

SignedText(v) == IF v < 0 THEN <<"-">> \o ToString(0 - v) ELSE ToString(v)

\* the VALUE texts tried: numbers, the smallest i32, padded and signed
\* numbers, and texts that are no number
ValueTexts ==
    { SignedText(v) : v \in {10, -10, 15, 120, I32Min} }
    \cup { <<" ", " ", "4", "2", " ", " ">>, <<"+", "5">> }
    \cup { <<"a", "b", "c">>, <<"-">> }

DeviceKinds ==
    { [brightness |-> 50, max_brightness |-> 100],
      [brightness |-> 10, max_brightness |-> 20],
      [brightness |-> I32Max, max_brightness |-> I32Max],
      [brightness |-> I32Max + 1, max_brightness |-> U32Max] }

\* the orders in which udev may enumerate n devices
Orders(n) ==
    { o \in [1..n -> 1..n] : \A i, j \in 1..n : o[i] = o[j] => i = j }

Event(op, dev, attr, ok, val) ==
    [op |-> op, dev |-> dev, attr |-> attr, ok |-> ok, val |-> val]

(***************************************************************************)
(* State                                                                   *)
(***************************************************************************)
VARIABLES
    overflow_checks, \* the build: TRUE when arithmetic overflow panics
    devs,            \* the devices' sysfs state: brightness, max_brightness
    pc,              \* where main is
    argv,            \* the subcommand and its VALUE
    update,          \* main's `update`: Option<Update>
    order,           \* the devices scanned by the enumerator, in its order
    pos,             \* how many devices the iterator has handed out
    bl,              \* the device apply works on (0: none)
    original,        \* apply's `original`
    value,           \* apply's `value`
    max,             \* apply's `max`
    io,              \* the udev and file operations of this invocation
    before,          \* the devices' state when this invocation started
    prev,            \* the previous invocation: its update and how it ended
    runs,            \* invocations so far
    ext              \* writes by other programs during this invocation, each
                     \* with the number of operations in io that preceded it

vars == <<overflow_checks, devs, pc, argv, update, order, pos, bl, original,
          value, max, io, before, prev, runs, ext>>

locals == <<original, value, max>>

NoArgs == [cmd |-> "none", valstr |-> <<>>]

NoPrev == [update |-> None, pc |-> "none"]

Init ==
    /\ overflow_checks \in BOOLEAN
    /\ \E n \in 1..MaxDevices : devs \in [1..n -> DeviceKinds]
    /\ pc = "start"
    /\ argv = NoArgs
    /\ update = None
    /\ order = <<>>
    /\ pos = 0
    /\ bl = 0
    /\ original = 0
    /\ value = 0
    /\ max = 0
    /\ io = <<>>
    /\ before = devs
    /\ prev = NoPrev
    /\ runs = 1
    /\ ext = <<>>

(***************************************************************************)
(* main                                                                    *)
(***************************************************************************)
\* main, lines 139-150: the subcommand and VALUE become the Update, or the
\* unwrap of a failed construction panics
ParseArgs ==
    /\ pc = "start"
    /\ \E cmd \in Subcommands :
       \E t \in (IF cmd = "none" THEN {<<>>} ELSE ValueTexts) :
          LET r == MatchUpdate(cmd, t, overflow_checks)
          IN  /\ argv' = [cmd |-> cmd, valstr |-> t]
              /\ update' = r.update
              /\ pc' = Unwrap(r.ok, "matched")
    /\ UNCHANGED <<overflow_checks, devs, order, pos, bl, locals, io, before,
                   prev, runs, ext>>

\* main, lines 152 and 156: without an Update there is nothing to do
MatchNone ==
    /\ pc = "matched"
    /\ ~update.some
    /\ pc' = "done"
    /\ UNCHANGED <<overflow_checks, devs, argv, update, order, pos, bl,
                   locals, io, before, prev, runs, ext>>

\* main, line 153: Backlights::new().unwrap()
Enumerate ==
    /\ pc = "matched"
    /\ update.some
    /\ \E ok \in BOOLEAN :
       \E o \in Orders(Len(devs)) :
          /\ io' = Append(io, Event("enumerate", 0, "", ok, 0))
          /\ order' = IF ok THEN o ELSE order
          /\ pos' = 0
          /\ pc' = Unwrap(ok, "iter")
    /\ UNCHANGED <<overflow_checks, devs, argv, update, bl, locals, before,
                   prev, runs, ext>>

\* the for loop's Backlights::next
IterNext ==
    /\ pc = "iter"
    /\ IF pos < Len(order)
       THEN /\ pos' = pos + 1
            /\ bl' = Syspath(order, pos + 1)
            /\ pc' = "apply"
       ELSE /\ pc' = "done"
            /\ UNCHANGED <<pos, bl>>
    /\ UNCHANGED <<overflow_checks, devs, argv, update, order, locals, io,
                   before, prev, runs, ext>>

\* Update::apply, lines 103-108
ApplyGetBrightness ==
    /\ pc = "apply"
    /\ IF IsRelative(update)
       THEN \E fail \in BOOLEAN :
               LET r   == ReadValue(SysfsShow(devs[bl].brightness), fail)
                   o   == AsI32(r.val)
                   sum == o + update.value
                   ok  == r.ok /\ ~(Overflows(sum) /\ overflow_checks)
               IN  /\ io' = Append(io, Event("read", bl, "brightness", r.ok, r.val))
                   /\ original' = IF r.ok THEN o ELSE original
                   /\ value' = IF ok THEN WrapI32(sum) ELSE value
                   /\ pc' = Unwrap(ok, "clamp")
       ELSE /\ value' = update.value
            /\ pc' = "clamp"
            /\ UNCHANGED <<original, io>>
    /\ UNCHANGED <<overflow_checks, devs, argv, update, order, pos, bl, max,
                   before, prev, runs, ext>>

\* Update::apply, lines 109-115
ApplyGetMaxBrightness ==
    /\ pc = "clamp"
    /\ \E fail \in BOOLEAN :
          LET r == ReadValue(SysfsShow(devs[bl].max_brightness), fail)
              m == AsI32(r.val)
          IN  /\ io' = Append(io, Event("read", bl, "max_brightness", r.ok, r.val))
              /\ max' = IF r.ok THEN m ELSE max
              /\ value' = IF r.ok THEN Clamp(value, m) ELSE value
              /\ pc' = Unwrap(r.ok, "write")
    /\ UNCHANGED <<overflow_checks, devs, argv, update, order, pos, bl,
                   original, before, prev, runs, ext>>

\* Update::apply, lines 116-117, and Backlight::set_brightness
ApplySetBrightness ==
    /\ pc = "write"
    /\ \E fail \in BOOLEAN :
          LET text == ToString(AsU32(value))
          IN  /\ io' = Append(io, Event("write", bl, "brightness", ~fail, AsU32(value)))
              /\ devs' = IF fail THEN devs
                         ELSE [devs EXCEPT ![bl].brightness =
                                  SysfsStore(text, devs[bl].brightness)]
              /\ pc' = Unwrap(~fail, "iter")
    /\ UNCHANGED <<overflow_checks, argv, update, order, pos, bl, locals,
                   before, prev, runs, ext>>

\* the program is run again
Restart ==
    /\ pc \in {"done", "aborted"}
    /\ runs < MaxRuns
    /\ runs' = runs + 1
    /\ prev' = [update |-> update, pc |-> pc]
    /\ before' = devs
    /\ pc' = "start"
    /\ argv' = NoArgs
    /\ update' = None
    /\ order' = <<>>
    /\ pos' = 0
    /\ bl' = 0
    /\ original' = 0
    /\ value' = 0
    /\ max' = 0
    /\ io' = <<>>
    /\ ext' = <<>>
    /\ UNCHANGED <<overflow_checks, devs>>

\* another program (a second instance, a desktop applet) writes a device's
\* brightness while this invocation runs
ExternalWrite ==
    /\ pc \notin {"done", "aborted"}
    /\ Len(ext) < MaxExternal
    /\ \E d \in 1..Len(devs) :
       \E v \in {0, devs[d].max_brightness} :
          /\ devs' = [devs EXCEPT ![d].brightness = v]
          /\ ext' = Append(ext, [dev |-> d, val |-> v, after |-> Len(io)])
    /\ UNCHANGED <<overflow_checks, pc, argv, update, order, pos, bl, locals,
                   io, before, prev, runs>>

Run ==
    \/ ParseArgs
    \/ MatchNone
    \/ Enumerate
    \/ IterNext
    \/ ApplyGetBrightness
    \/ ApplyGetMaxBrightness
    \/ ApplySetBrightness

\* one invocation
Next == Run

Spec == Init /\ [][Next]_vars

\* invocations in a row on one device
InitSeq == Init /\ Len(devs) = 1

NextSeq == Run \/ Restart

SpecSeq == InitSeq /\ [][NextSeq]_vars

\* one invocation, with other programs writing the devices
NextExt == Run \/ ExternalWrite

SpecExt == Init /\ [][NextExt]_vars

(***************************************************************************)
(* Definitions the properties share.                                       *)
(***************************************************************************)
\* clamp(x, lo, hi) over the mathematical integers
MathClamp(x, lo, hi) == IF x < lo THEN lo ELSE IF x > hi THEN hi ELSE x

LastIO == io[Len(io)]

\* apply has just returned Ok for device bl
Applied ==
    /\ pc = "iter"
    /\ pos > 0
    /\ io # <<>>
    /\ LastIO.op = "write"
    /\ LastIO.ok
    /\ LastIO.dev = bl

IsWrite(k) == io[k].op = "write"

\* the VALUE of this invocation, parsed
Parsed == ParseI32(Trim(argv.valstr))

\* the position of a device in the enumeration
Position(d) == CHOOSE p \in 1..Len(order) : order[p] = d

\* apply has returned Ok for device d in this invocation
Processed(d) ==
    \E p \in 1..pos :
        /\ p <= Len(order)
        /\ order[p] = d
        /\ (p < pos \/ pc \in {"iter", "done"})

(***************************************************************************)
(* C1: for a relative request and a device whose readings satisfy          *)
(* 0 <= current <= max, a successful apply writes                          *)
(* clamp(current + delta, 0, max), the sum taken over the mathematical     *)
(* integers.                                                               *)
(***************************************************************************)
C1_RelativeWritesClampedSum ==
    (/\ Applied
     /\ update.relative
     /\ before[bl].brightness <= before[bl].max_brightness
     /\ before[bl].max_brightness <= I32Max)
    => /\ LastIO.val = MathClamp(before[bl].brightness + update.value, 0,
                                 before[bl].max_brightness)
       /\ devs[bl].brightness = LastIO.val

(***************************************************************************)
(* C2: for an absolute request with parsed value delta and a device whose  *)
(* (signed) maximum is max >= 0, a successful apply writes delta when      *)
(* 0 <= delta <= max, max when delta > max and 0 when delta < 0, and the   *)
(* device's current brightness is not read.                                *)
(***************************************************************************)
C2_AbsoluteWritesClampedValue ==
    (/\ Applied
     /\ ~update.relative
     /\ AsI32(before[bl].max_brightness) >= 0)
    => LET delta == Parsed.val
           m     == before[bl].max_brightness
           w     == IF delta < 0 THEN 0 ELSE IF delta > m THEN m ELSE delta
       IN  /\ Parsed.ok
           /\ LastIO.val = w
           /\ devs[bl].brightness = w
           /\ \A k \in 1..Len(io) :
                ~(io[k].op = "read" /\ io[k].attr = "brightness")

C2_Witness ==
    /\ Applied
    /\ ~update.relative
    /\ AsI32(before[bl].max_brightness) >= 0
    /\ Parsed.val > before[bl].max_brightness
    /\ before[bl].brightness # before[bl].max_brightness
    /\ devs[bl].brightness = before[bl].max_brightness

(***************************************************************************)
(* C3: over any sequence of invocations every value written to a device's  *)
(* brightness lies in [0, max_brightness], max_brightness being the value  *)
(* read just before the write in the same apply, and so the device's       *)
(* brightness stays in that range.                                         *)
(***************************************************************************)
C3_WrittenInRange ==
    /\ \A k \in 1..Len(io) :
          IsWrite(k) =>
             /\ k > 1
             /\ io[k - 1].op = "read"
             /\ io[k - 1].attr = "max_brightness"
             /\ io[k - 1].dev = io[k].dev
             /\ io[k - 1].ok
             /\ 0 <= io[k].val
             /\ io[k].val <= io[k - 1].val
    /\ \A d \in 1..Len(devs) :
          /\ 0 <= devs[d].brightness
          /\ devs[d].brightness <= devs[d].max_brightness

C3_Witness ==
    /\ runs = 2
    /\ prev.pc = "done"
    /\ prev.update.some
    /\ Applied
    /\ update.relative
    /\ original + update.value < 0
    /\ original > 0
    /\ devs[bl].brightness = 0

(***************************************************************************)
(* C4: for every text that parses as a signed integer, dec(text) yields    *)
(* the request with relative = true and delta = -parse(text), the same     *)
(* outcome as inc of the negated value.                                    *)
(***************************************************************************)
C4_DecIsIncOfNegated ==
    (/\ pc # "start"
     /\ argv.cmd = "dec"
     /\ Parsed.ok)
    => /\ pc # "aborted" \/ io # <<>>
       /\ update = Some(TRUE, 0 - Parsed.val)
       /\ UpdateInc(SignedText(0 - Parsed.val)).update = update

(***************************************************************************)
(* C5: when the same absolute request is applied twice in a row to a       *)
(* device, the brightness after the second application is the brightness   *)
(* after the first.                                                        *)
(***************************************************************************)
C5_SetTwiceIsSetOnce ==
    (/\ pc = "done"
     /\ prev.pc = "done"
     /\ update.some
     /\ ~update.relative
     /\ prev.update = update)
    => devs = before

C5_Witness ==
    /\ pc = "done"
    /\ prev.pc = "done"
    /\ update.some
    /\ ~update.relative
    /\ prev.update = update
    /\ Len(io) = 3
    /\ LastIO.op = "write"
    /\ LastIO.ok
    /\ LastIO.val = 10
    /\ devs[1].brightness = 10

(***************************************************************************)
(* C6: the devices are processed one after another in the order of the     *)
(* enumeration; when a read or a write fails, the invocation is aborted at *)
(* once, no device enumerated after the failing one is read or written,    *)
(* and the devices processed before it keep the values written to them.    *)
(***************************************************************************)
C6_FailFast ==
    /\ \A j, k \in 2..Len(io) :
          j < k => Position(io[j].dev) <= Position(io[k].dev)
    /\ \A k \in 2..Len(io) :
          ~io[k].ok =>
             /\ k = Len(io)
             /\ pc = "aborted"
             /\ io[k].dev = order[pos]
             /\ \A p \in (pos + 1)..Len(order) :
                   /\ devs[order[p]] = before[order[p]]
                   /\ \A j \in 1..Len(io) : io[j].dev # order[p]
             /\ \A p \in 1..(pos - 1) :
                   \E j \in 1..Len(io) :
                      /\ IsWrite(j)
                      /\ io[j].ok
                      /\ io[j].dev = order[p]
                      /\ devs[order[p]].brightness = io[j].val

C6_Witness ==
    /\ pc = "aborted"
    /\ Len(order) = 2
    /\ pos = 1
    /\ LastIO.op = "write"
    /\ ~LastIO.ok
    /\ devs = before

(***************************************************************************)
(* C7: each device's brightness after the update is a function of the      *)
(* request and of the device's own readings only, whatever the order of    *)
(* the enumeration, and applying the update to one device leaves the       *)
(* brightness and max_brightness of every other device as they were.       *)
(***************************************************************************)
\* what apply leaves in a device, from the request and that device alone
OwnResult(u, dev) ==
    LET cur == AsI32(dev.brightness)
        m   == AsI32(dev.max_brightness)
        t   == IF u.relative THEN WrapI32(cur + u.value) ELSE u.value
    IN  IF m < 0 THEN 0 ELSE MathClamp(t, 0, m)

C7_DeviceIndependence ==
    update.some =>
       \A d \in 1..Len(devs) :
          /\ devs[d].max_brightness = before[d].max_brightness
          /\ devs[d].brightness =
                IF Processed(d) THEN OwnResult(update, before[d])
                ELSE before[d].brightness

C7_Witness ==
    /\ pc = "done"
    /\ update = Some(TRUE, 15)
    /\ order = <<2, 1>>
    /\ before = <<[brightness |-> 50, max_brightness |-> 100],
                  [brightness |-> 10, max_brightness |-> 20]>>
    /\ devs = <<[brightness |-> 65, max_brightness |-> 100],
                [brightness |-> 20, max_brightness |-> 20]>>

(***************************************************************************)
(* C8: without a subcommand the program enumerates nothing, reads and      *)
(* writes no attribute, does not fail, and leaves every device as it was.  *)
(***************************************************************************)
C8_NoSubcommandNoIO ==
    (pc # "start" /\ argv.cmd = "none")
    => /\ pc \in {"matched", "done"}
       /\ ~update.some
       /\ io = <<>>
       /\ devs = before

C8_Witness ==
    /\ pc = "done"
    /\ argv.cmd = "none"
    /\ io = <<>>
    /\ devs = before

(***************************************************************************)
(* C9: a device's brightness is written only after VALUE has parsed, the   *)
(* enumeration has succeeded and the reads of apply on that device         *)
(* (brightness for a relative request, then max_brightness) have           *)
(* succeeded; when one of them fails the invocation is aborted with that   *)
(* device's brightness as it was, and a malformed VALUE aborts before any  *)
(* device is enumerated, read or written.                                  *)
(***************************************************************************)
C9_WriteOnlyAfterSuccess ==
    /\ \A k \in 1..Len(io) :
          IsWrite(k) =>
             /\ Parsed.ok
             /\ k > 2
             /\ io[1].op = "enumerate" /\ io[1].ok
             /\ io[k - 1] = Event("read", io[k].dev, "max_brightness", TRUE,
                                  before[io[k].dev].max_brightness)
             /\ update.relative =>
                   io[k - 2] = Event("read", io[k].dev, "brightness", TRUE,
                                     before[io[k].dev].brightness)
    /\ (pc = "aborted" /\ bl # 0) => devs[bl] = before[bl]
    /\ (pc = "aborted" /\ io # <<>> /\ ~io[1].ok) => Len(io) = 1 /\ devs = before
    /\ (pc # "start" /\ argv.cmd # "none" /\ ~Parsed.ok)
          => pc = "aborted" /\ io = <<>> /\ devs = before

C9_Witness ==
    /\ pc = "aborted"
    /\ pos = 2
    /\ update.relative
    /\ LastIO = Event("read", bl, "max_brightness", FALSE, 0)
    /\ devs[bl] = before[bl]
    /\ devs[order[1]] # before[order[1]]

(***************************************************************************)
(* C10: when another program writes a device's brightness between this     *)
(* invocation's read of it and this invocation's write, the brightness     *)
(* after the write is clamp(value read + delta, 0, max), computed from the *)
(* value this invocation read, and no error is reported.                   *)
(***************************************************************************)
C10_LastWriterWins ==
    (/\ Applied
     /\ update.relative
     /\ before[bl].max_brightness <= I32Max
     /\ \E e \in 1..Len(ext) :
           /\ ext[e].dev = bl
           /\ ext[e].after \in {Len(io) - 2, Len(io) - 1}
     /\ \A e \in 1..Len(ext) :
           ext[e].dev = bl => ext[e].after < Len(io))
    => /\ io[Len(io) - 2].op = "read"
       /\ io[Len(io) - 2].attr = "brightness"
       /\ io[Len(io) - 2].dev = bl
       /\ devs[bl].brightness =
             MathClamp(io[Len(io) - 2].val + update.value, 0,
                       io[Len(io) - 1].val)

=============================================================================
